---- MODULE Spec2Model ----
(***************************************************************************)
(* terminalchat: the Flask server (server.py) as a state machine.          *)
(*                                                                         *)
(* State: the JSON files under server_data/ (users.json, tokens.json,      *)
(* blocked.json, messages/<sender>_<recipient>.json, files/<id>) and the   *)
(* requests in flight.  Flask serves requests on concurrent threads and    *)
(* the handlers take no lock, so a handler is a sequence of steps, one per *)
(* file access: a read (exists + open + json.load), open(path, 'w') which  *)
(* truncates, and the json.dump that fills the file when it is closed.     *)
(* The first step of a handler also draws the request's inputs.            *)
(***************************************************************************)
EXTENDS Integers, Sequences, FiniteSets, TLC

(***************************************************************************)
(* Bounds.                                                                 *)
(***************************************************************************)
\* message_data records one client creates (send_message and send_file)
MaxSends == 1
\* tokens login issues to one client (uuid4 values, never repeated)
MaxTokens == 1
\* uploads stored by send_file
MaxFiles == 1
\* messages a fetch loads (a fetch of one's own conversation doubles the log)
MaxLog == 4
\* message_data records created where requests race or a conversation grows
RaceSends == 2
\* tokens issued where logins and logouts race
RaceTokens == 2

Threads == {"t1", "t2"}
MainThread == "t1"

\* user handles are strings, modelled as sequences of characters
Alice == <<"a">>
Bob == <<"b">>
AliceBob == <<"a", "_", "b">>
BobAlice == <<"b", "_", "a">>
NoName == <<>>

Password == "p"
WrongPassword == "x"
Salt == "s1"
Salts == {Salt}
Contents == {<<"h", "i">>}
UploadNames == {<<"f">>}

(***************************************************************************)
(* Strings.                                                                *)
(***************************************************************************)
Ext == <<".", "j", "s", "o", "n">>

\* str.endswith
EndsWith(s, suf) ==
    /\ Len(s) >= Len(suf)
    /\ SubSeq(s, Len(s) - Len(suf) + 1, Len(s)) = suf

\* str.split(sep) for a one-character separator: the list of the pieces
RECURSIVE SplitFrom(_, _, _, _)
SplitFrom(s, sep, i, cur) ==
    IF i > Len(s) THEN <<cur>>
    ELSE IF s[i] = sep THEN <<cur>> \o SplitFrom(s, sep, i + 1, <<>>)
    ELSE SplitFrom(s, sep, i + 1, Append(cur, s[i]))

Split(s, sep) == SplitFrom(s, sep, 1, <<>>)

\* the place of a character in the order of the handles' alphabet
Rank(c) == CHOOSE k \in 1..3 : <<"_", "a", "b">>[k] = c

\* s < r, as strings compare
RECURSIVE Before(_, _)
Before(s, r) ==
    IF r = <<>> THEN FALSE
    ELSE IF s = <<>> THEN TRUE
    ELSE IF s[1] # r[1] THEN Rank(s[1]) < Rank(r[1])
    ELSE Before(Tail(s), Tail(r))

\* a variant of MessagePath: one file per unordered pair, the smaller handle first
CanonicalPath(sender, recipient) ==
    IF Before(recipient, sender) THEN recipient \o <<"_">> \o sender \o Ext
    ELSE sender \o <<"_">> \o recipient \o Ext

\* os.path.join(MESSAGES_DIR, f"{sender}_{recipient}.json"), the file name
MessagePath(sender, recipient) == sender \o <<"_">> \o recipient \o Ext

(***************************************************************************)
(* Files.  A file holds a JSON document, or text json.load rejects: the    *)
(* empty file left by open(path, 'w') (len 0) or the overlay of two        *)
(* writes (len > 0).                                                       *)
(***************************************************************************)
\* `n` is the length of the text; json.load accepts it iff ok
Doc(d, n) == [ok |-> TRUE, data |-> d, len |-> n]
Bad(n) == [ok |-> FALSE, data |-> <<>>, len |-> n]
\* open(path, 'w'): the file is empty until the writer closes it
Truncated == Bad(0)

RECURSIVE SumOver(_, _)
SumOver(seq, i) == IF i > Len(seq) THEN 0 ELSE seq[i] + SumOver(seq, i + 1)

\* length of the text json.dump(..., indent=2) writes for one message
MsgLen(m) ==
    144 + Len(m.sender) + Len(m.recipient) + Len(m.content)
        + (IF m.read THEN 4 ELSE 5)
        + (IF m.is_file THEN 4 + 50 + Len(m.file_id) ELSE 5)

MsgsLen(msgs) == 2 + SumOver([i \in 1..Len(msgs) |-> MsgLen(msgs[i])], 1)

RECURSIVE SumSet(_, _)
SumSet(S, f) ==
    IF S = {} THEN 0
    ELSE LET x == CHOOSE y \in S : TRUE IN f[x] + SumSet(S \ {x}, f)

\* tokens.json, an entry is "<32 hex>": "<username>"
TokensLen(d) == 2 + SumSet(DOMAIN d, [t \in DOMAIN d |-> 42 + Len(d[t])])
\* users.json, an entry is "<username>": {password_hash, salt, created_at}
UsersLen(d) == 2 + SumSet(DOMAIN d, [u \in DOMAIN d |-> 197 + Len(u)])

\* The file after a writer that opened it with 'w' writes its `n` characters
\* at offset 0 and closes: its document when that covers what another writer
\* put there since the truncation, else its text followed by the tail of the
\* other's, which json.load rejects.
Overlay(cur, d, n) == IF n >= cur.len THEN Doc(d, n) ELSE Bad(cur.len)

\* f without the key k (del f[k])
Without(f, k) == [x \in DOMAIN f \ {k} |-> f[x]]
\* f with f[k] = v
With(f, k, v) == [x \in DOMAIN f \cup {k} |-> IF x = k THEN v ELSE f[x]]
EmptyMap == [x \in {} |-> 0]

(***************************************************************************)
(* Requests.                                                               *)
(***************************************************************************)
\* the Authorization header: absent, "<token>" or "Bearer <token>"
NoHeader == [pre |-> "", tok |-> 0]
HeadersOf(n) ==
    {NoHeader} \cup {[pre |-> p, tok |-> k] : p \in {"", "Bearer "}, k \in 1..n}

Resp(status, error, body) == [status |-> status, error |-> error, body |-> body]
NoResp == Resp(0, "", <<>>)
NoMsg ==
    [id |-> 0, sender |-> NoName, recipient |-> NoName, content |-> <<>>,
     ts |-> 0, read |-> FALSE, is_file |-> FALSE, file_id |-> <<>>]

\* a thread waiting for a request
Idle ==
    [pc |-> "idle", op |-> "none", hdr |-> NoHeader, peer |-> NoName,
     known |-> FALSE, user |-> NoName, tok |-> 0, msg |-> NoMsg, msgs |-> <<>>,
     map |-> EmptyMap, linked |-> TRUE, resp |-> NoResp]

VARIABLES
    cfg,          \* the clients of this run: the handles, passwords, headers
                  \* and contents they send, and how many messages, tokens
                  \* and uploads they make
    usersFile,    \* users.json
    tokensFile,   \* tokens.json
    blockedFile,  \* blocked.json
    msgdir,       \* messages/: file name -> file
    filesdir,     \* files/: file name -> uploaded blob
    thr,          \* the request each thread is serving
    nextTok,      \* uuid4 of login: the next unused token
    nextFile,     \* uuid4 of send_file: the next unused prefix
    nextId,       \* the number of message_data records created, plus one
    clock,        \* datetime.now() of the last message_data
    sent,         \* history: id -> the message_data created with that id
    acked,        \* history: ids of the messages answered 201
    wiped,        \* history: ids of the messages in a file os.remove deleted
    dirty,        \* history: the thread's request has changed a file
    found,        \* history: messages/ as the thread's request found it
    wasRead,      \* history: ids of the messages a file has held with read true
    issued,       \* history: token -> username, for the tokens login returned
    revoked       \* history: the tokens logout requests have carried

vars ==
    <<cfg, usersFile, tokensFile, blockedFile, msgdir, filesdir, thr, nextTok,
      nextFile, nextId, clock, sent, acked, wiped, dirty, found, wasRead, issued,
      revoked>>

Stores == <<usersFile, tokensFile, blockedFile, msgdir, filesdir>>

\* lines 29-40: the data files are created empty if they do not exist
Fresh(c) ==
    /\ cfg = c
    /\ usersFile = Doc(EmptyMap, 2)
    /\ tokensFile = Doc(EmptyMap, 2)
    /\ blockedFile = Doc(EmptyMap, 2)
    /\ msgdir = EmptyMap
    /\ filesdir = EmptyMap
    /\ thr = [t \in Threads |-> Idle]
    /\ nextTok = 1
    /\ nextFile = 1
    /\ nextId = 1
    /\ clock = 0
    /\ sent = <<>>
    /\ acked = {}
    /\ wiped = {}
    /\ dirty = [t \in Threads |-> FALSE]
    /\ found = [t \in Threads |-> EmptyMap]
    /\ wasRead = {}
    /\ issued = EmptyMap
    /\ revoked = {}

At(t, pc) == thr[t].pc = pc
Set(t, r) == thr' = [thr EXCEPT ![t] = r]

\* the token of the header, with or without "Bearer ", is a key of tokens.json
Known(h) == tokensFile.ok /\ h.tok \in DOMAIN tokensFile.data

\* a request arrives: the route, the Authorization header, the path parameter
Begin(op, h, peer) ==
    [Idle EXCEPT !.pc = "run", !.op = op, !.hdr = h, !.peer = peer, !.known = Known(h)]
\* the handler returns
Answer(r, resp) ==
    [Idle EXCEPT !.pc = "done", !.op = r.op, !.hdr = r.hdr, !.peer = r.peer, !.known = r.known,
                 !.user = r.user, !.resp = resp]

\* the messages in the files of `dir` that json.load accepts
Stored(dir) ==
    UNION {{dir[p].data[i] : i \in 1..Len(dir[p].data)} :
              p \in {q \in DOMAIN dir : dir[q].ok}}

\* the history variables, updated by every step of thread t
Track(t) ==
    /\ dirty' = [dirty EXCEPT ![t] = (~At(t, "idle") /\ @) \/ Stores' # Stores]
    /\ found' = IF At(t, "idle") THEN [found EXCEPT ![t] = msgdir] ELSE found
    /\ wasRead' = wasRead \cup {m.id : m \in {x \in Stored(msgdir') : x.read}}
    /\ issued' = IF At(t, "login_dump") THEN With(issued, thr[t].tok, thr[t].peer)
                 ELSE issued
    /\ revoked' = IF At(t, "idle") /\ thr'[t].op = "logout" /\ thr'[t].hdr # NoHeader
                  THEN revoked \cup {thr'[t].hdr.tok} ELSE revoked

get_users == IF usersFile.ok THEN usersFile.data ELSE EmptyMap
get_tokens == IF tokensFile.ok THEN tokensFile.data ELSE EmptyMap

\* a variant of StripBearer that leaves the prefix in place
KeepBearer(h) == h

StripBearer(h) == IF h.pre = "Bearer " THEN [pre |-> "", tok |-> h.tok] ELSE h

\* `token in tokens` for the header text as it stands
TokenIn(h, tokens) == h.pre = "" /\ h.tok \in DOMAIN tokens

get_user_by_token(h) ==
    LET token == StripBearer(h)
        tokens == get_tokens
    IN  IF TokenIn(token, tokens) THEN tokens[token.tok] ELSE NoName

\* a variant of AuthError without the `if not token` test: a request with no
\* header goes on to the lookup
AuthErrorUnguarded(h) ==
    IF get_user_by_token(h) = NoName THEN Resp(401, "Invalid token", <<>>) ELSE NoResp

\* `if not token` / `if not username` at the head of every protected route
AuthError(h) ==
    IF h = NoHeader THEN Resp(401, "Authorization token is required", <<>>)
    ELSE IF get_user_by_token(h) = NoName THEN Resp(401, "Invalid token", <<>>)
    ELSE NoResp

\* hashlib.sha256((password + salt).encode()).hexdigest()
Hash(password, salt) == <<password, salt>>

(***************************************************************************)
(* POST /signup                                                            *)
(***************************************************************************)
signup(t) ==
    /\ At(t, "idle")
    /\ \E username \in cfg.users \cup {NoName}, password \in cfg.passwords \cup {""}, salt \in Salts :
         LET r == Begin("signup", NoHeader, username)
             users == get_users
         IN  IF username = NoName \/ password = ""
             THEN Set(t, Answer(r, Resp(400, "Username and password are required", <<>>)))
             ELSE IF username \in DOMAIN users
             THEN Set(t, Answer(r, Resp(400, "Username already exists", <<>>)))
             ELSE Set(t, [r EXCEPT !.pc = "signup_open",
                                   !.map = With(users, username,
                                                [password_hash |-> Hash(password, salt),
                                                 salt |-> salt])])
    /\ UNCHANGED <<cfg, usersFile, tokensFile, blockedFile, msgdir, filesdir, nextTok,
                   nextFile, nextId, clock, sent, acked, wiped>>
    /\ Track(t)

\* save_users: open(USERS_FILE, 'w')
signup_open(t) ==
    /\ At(t, "signup_open")
    /\ usersFile' = Truncated
    /\ Set(t, [thr[t] EXCEPT !.pc = "signup_dump"])
    /\ UNCHANGED <<cfg, tokensFile, blockedFile, msgdir, filesdir, nextTok, nextFile,
                   nextId, clock, sent, acked, wiped>>
    /\ Track(t)

\* save_users: json.dump and close, then the 201
signup_dump(t) ==
    /\ At(t, "signup_dump")
    /\ usersFile' = Overlay(usersFile, thr[t].map, UsersLen(thr[t].map))
    /\ Set(t, Answer(thr[t], Resp(201, "", <<>>)))
    /\ UNCHANGED <<cfg, tokensFile, blockedFile, msgdir, filesdir, nextTok, nextFile,
                   nextId, clock, sent, acked, wiped>>
    /\ Track(t)

(***************************************************************************)
(* POST /login                                                             *)
(***************************************************************************)
\* a variant of login whose token is not always a new one
login_reusing(t) ==
    /\ At(t, "idle")
    /\ \E username \in cfg.users \cup {NoName}, password \in cfg.passwords \cup {"", WrongPassword} :
         LET r == Begin("login", NoHeader, username)
             users == get_users
         IN  IF username = NoName \/ password = ""
             THEN /\ Set(t, Answer(r, Resp(400, "Username and password are required", <<>>)))
                  /\ UNCHANGED nextTok
             ELSE IF \/ username \notin DOMAIN users
                     \/ Hash(password, users[username].salt) # users[username].password_hash
             THEN /\ Set(t, Answer(r, Resp(401, "Invalid username or password", <<>>)))
                  /\ UNCHANGED nextTok
             ELSE \* a token that may have been returned before
                  /\ nextTok <= cfg.tokens
                  /\ nextTok' = nextTok + 1
                  /\ \E token \in 1..nextTok :
                        Set(t, [r EXCEPT !.pc = "login_read", !.tok = token])
    /\ UNCHANGED <<cfg, usersFile, tokensFile, blockedFile, msgdir, filesdir,
                   nextFile, nextId, clock, sent, acked, wiped>>
    /\ Track(t)

login(t) ==
    /\ At(t, "idle")
    /\ \E username \in cfg.users \cup {NoName}, password \in cfg.passwords \cup {"", WrongPassword} :
         LET r == Begin("login", NoHeader, username)
             users == get_users
         IN  IF username = NoName \/ password = ""
             THEN /\ Set(t, Answer(r, Resp(400, "Username and password are required", <<>>)))
                  /\ UNCHANGED nextTok
             ELSE IF \/ username \notin DOMAIN users
                     \/ Hash(password, users[username].salt) # users[username].password_hash
             THEN /\ Set(t, Answer(r, Resp(401, "Invalid username or password", <<>>)))
                  /\ UNCHANGED nextTok
             ELSE \* token = uuid.uuid4().hex
                  /\ nextTok <= cfg.tokens
                  /\ nextTok' = nextTok + 1
                  /\ Set(t, [r EXCEPT !.pc = "login_read", !.tok = nextTok])
    /\ UNCHANGED <<cfg, usersFile, tokensFile, blockedFile, msgdir, filesdir,
                   nextFile, nextId, clock, sent, acked, wiped>>
    /\ Track(t)

\* tokens = get_tokens(); tokens[token] = username
login_read(t) ==
    /\ At(t, "login_read")
    /\ Set(t, [thr[t] EXCEPT !.pc = "login_open",
                             !.map = With(get_tokens, thr[t].tok, thr[t].peer)])
    /\ UNCHANGED <<cfg, usersFile, tokensFile, blockedFile, msgdir, filesdir, nextTok,
                   nextFile, nextId, clock, sent, acked, wiped>>
    /\ Track(t)

\* save_tokens: open(TOKENS_FILE, 'w')
login_open(t) ==
    /\ At(t, "login_open")
    /\ tokensFile' = Truncated
    /\ Set(t, [thr[t] EXCEPT !.pc = "login_dump"])
    /\ UNCHANGED <<cfg, usersFile, blockedFile, msgdir, filesdir, nextTok, nextFile,
                   nextId, clock, sent, acked, wiped>>
    /\ Track(t)

\* save_tokens: json.dump and close, then the 200 with the token
login_dump(t) ==
    /\ At(t, "login_dump")
    /\ tokensFile' = Overlay(tokensFile, thr[t].map, TokensLen(thr[t].map))
    /\ Set(t, Answer(thr[t], Resp(200, "", <<thr[t].tok>>)))
    /\ UNCHANGED <<cfg, usersFile, blockedFile, msgdir, filesdir, nextTok, nextFile,
                   nextId, clock, sent, acked, wiped>>
    /\ Track(t)

(***************************************************************************)
(* POST /logout                                                            *)
(***************************************************************************)
\* a variant of logout that refuses a token it does not find
logout_strict(t) ==
    /\ At(t, "idle")
    /\ \E h \in cfg.headers :
         LET r == Begin("logout", h, NoName)
             tokens == get_tokens
         IN  IF h = NoHeader
             THEN Set(t, Answer(r, Resp(200, "", <<"Already logged out">>)))
             ELSE IF TokenIn(h, tokens)
             THEN Set(t, [r EXCEPT !.pc = "logout_open", !.map = Without(tokens, h.tok)])
             ELSE Set(t, Answer(r, Resp(401, "Invalid token", <<>>)))
    /\ UNCHANGED <<cfg, usersFile, tokensFile, blockedFile, msgdir, filesdir, nextTok,
                   nextFile, nextId, clock, sent, acked, wiped>>
    /\ Track(t)

logout(t) ==
    /\ At(t, "idle")
    /\ \E h \in cfg.headers :
         LET r == Begin("logout", h, NoName)
             tokens == get_tokens
         IN  IF h = NoHeader
             THEN Set(t, Answer(r, Resp(200, "", <<"Already logged out">>)))
             ELSE IF TokenIn(h, tokens)
             THEN Set(t, [r EXCEPT !.pc = "logout_open", !.map = Without(tokens, h.tok)])
             ELSE Set(t, Answer(r, Resp(200, "", <<"Logged out successfully">>)))
    /\ UNCHANGED <<cfg, usersFile, tokensFile, blockedFile, msgdir, filesdir, nextTok,
                   nextFile, nextId, clock, sent, acked, wiped>>
    /\ Track(t)

logout_open(t) ==
    /\ At(t, "logout_open")
    /\ tokensFile' = Truncated
    /\ Set(t, [thr[t] EXCEPT !.pc = "logout_dump"])
    /\ UNCHANGED <<cfg, usersFile, blockedFile, msgdir, filesdir, nextTok, nextFile,
                   nextId, clock, sent, acked, wiped>>
    /\ Track(t)

logout_dump(t) ==
    /\ At(t, "logout_dump")
    /\ tokensFile' = Overlay(tokensFile, thr[t].map, TokensLen(thr[t].map))
    /\ Set(t, Answer(thr[t], Resp(200, "", <<"Logged out successfully">>)))
    /\ UNCHANGED <<cfg, usersFile, blockedFile, msgdir, filesdir, nextTok, nextFile,
                   nextId, clock, sent, acked, wiped>>
    /\ Track(t)

(***************************************************************************)
(* Conversations: get_messages, save_message and the routes on them.       *)
(***************************************************************************)
\* list.sort(key=timestamp): stable insertion of m after its equals
RECURSIVE InsertByTs(_, _)
InsertByTs(sorted, m) ==
    IF sorted = <<>> THEN <<m>>
    ELSE IF sorted[Len(sorted)].ts <= m.ts THEN Append(sorted, m)
    ELSE Append(InsertByTs(SubSeq(sorted, 1, Len(sorted) - 1), m), sorted[Len(sorted)])

RECURSIVE SortByTs(_)
SortByTs(msgs) ==
    IF msgs = <<>> THEN <<>>
    ELSE InsertByTs(SortByTs(SubSeq(msgs, 1, Len(msgs) - 1)), msgs[Len(msgs)])

\* get_messages, one file: skipped when missing or when json.load fails
LoadOrSkip(path) ==
    IF path \in DOMAIN msgdir /\ msgdir[path].ok THEN msgdir[path].data ELSE <<>>

\* get_messages(sender, recipient), both files read at once
get_messages(sender, recipient) ==
    SortByTs(LoadOrSkip(MessagePath(sender, recipient))
             \o LoadOrSkip(MessagePath(recipient, sender)))

\* a variant of MarkRead that does not compare the recipient
MarkEvery(msgs, reader) ==
    [i \in 1..Len(msgs) |-> [msgs[i] EXCEPT !.read = TRUE]]

\* the loop of get_user_messages that sets message['read']
MarkRead(msgs, reader) ==
    [i \in 1..Len(msgs) |->
        IF msgs[i].recipient = reader /\ ~msgs[i].read
        THEN [msgs[i] EXCEPT !.read = TRUE] ELSE msgs[i]]

SentBy(msgs, who) == SelectSeq(msgs, LAMBDA m : m.sender = who)

\* the file a thread holds open for writing
OpenPath(r) ==
    CASE r.pc = "get_dump1" -> MessagePath(r.user, r.peer)
      [] r.pc = "get_dump2" -> MessagePath(r.peer, r.user)
      [] r.pc = "send_dump" -> MessagePath(r.msg.sender, r.msg.recipient)
      [] OTHER -> <<>>

\* os.remove of the files `paths`: a writer that holds one of them open keeps
\* writing to the unlinked file
Unlinked(t, r, paths) ==
    [u \in Threads |->
        IF u = t THEN r
        ELSE IF OpenPath(thr[u]) \in paths THEN [thr[u] EXCEPT !.linked = FALSE]
        ELSE thr[u]]

Remove(paths) ==
    /\ msgdir' = [f \in DOMAIN msgdir \ paths |-> msgdir[f]]
    /\ wiped' = wiped \cup
         {i \in 1..Len(sent) : MessagePath(sent[i].sender, sent[i].recipient)
                                 \in paths \cap DOMAIN msgdir}

\* datetime.now(): not before the last one taken
Now == IF clock = 0 THEN {1} ELSE {clock, clock + 1}

(***************************************************************************)
(* POST /messages/<recipient>                                              *)
(***************************************************************************)
\* a variant of send_message without the check of `content`
send_message_unvalidated(t) ==
    /\ At(t, "idle")
    /\ \E h \in cfg.headers, recipient \in cfg.peers, content \in cfg.contents, ts \in Now :
         LET r == Begin("send_message", h, recipient)
             sender == get_user_by_token(h)
             message_data ==
                 [id |-> nextId, sender |-> sender, recipient |-> recipient,
                  content |-> content, ts |-> ts, read |-> FALSE,
                  is_file |-> FALSE, file_id |-> <<>>]
         IN  IF AuthError(h) # NoResp
             THEN /\ Set(t, Answer(r, AuthError(h)))
                  /\ UNCHANGED <<nextId, clock, sent>>
             ELSE /\ nextId <= cfg.sends
                  /\ nextId' = nextId + 1
                  /\ clock' = ts
                  /\ sent' = Append(sent, message_data)
                  /\ Set(t, [r EXCEPT !.pc = "send_read", !.user = sender,
                                      !.msg = message_data])
    /\ UNCHANGED <<cfg, usersFile, tokensFile, blockedFile, msgdir, filesdir, nextTok,
                   nextFile, acked, wiped>>
    /\ Track(t)

\* a variant of send_message that takes 'sender' and 'read' from the request body
send_message_trusting(t) ==
    /\ At(t, "idle")
    /\ \E h \in cfg.headers, recipient \in cfg.peers, content \in cfg.contents, ts \in Now,
          data_sender \in cfg.peers, data_read \in BOOLEAN :
         LET r == Begin("send_message", h, recipient)
             sender == get_user_by_token(h)
             message_data ==
                 [id |-> nextId, sender |-> data_sender, recipient |-> recipient,
                  content |-> content, ts |-> ts, read |-> data_read,
                  is_file |-> FALSE, file_id |-> <<>>]
         IN  IF AuthError(h) # NoResp
             THEN /\ Set(t, Answer(r, AuthError(h)))
                  /\ UNCHANGED <<nextId, clock, sent>>
             ELSE IF content = <<>>
             THEN /\ Set(t, Answer(r, Resp(400, "Message content is required", <<>>)))
                  /\ UNCHANGED <<nextId, clock, sent>>
             ELSE /\ nextId <= cfg.sends
                  /\ nextId' = nextId + 1
                  /\ clock' = ts
                  /\ sent' = Append(sent, message_data)
                  /\ Set(t, [r EXCEPT !.pc = "send_read", !.user = sender,
                                      !.msg = message_data])
    /\ UNCHANGED <<cfg, usersFile, tokensFile, blockedFile, msgdir, filesdir, nextTok,
                   nextFile, acked, wiped>>
    /\ Track(t)

\* request.json may carry 'sender' and 'read' beside 'content' (the client's
\* message of terminalchat.py:511-518 does): data_sender and data_read, which
\* the handler never looks at
send_message(t) ==
    /\ At(t, "idle")
    /\ \E h \in cfg.headers, recipient \in cfg.peers, content \in cfg.contents, ts \in Now,
          data_sender \in cfg.peers, data_read \in BOOLEAN :
         LET r == Begin("send_message", h, recipient)
             sender == get_user_by_token(h)
             message_data ==
                 [id |-> nextId, sender |-> sender, recipient |-> recipient,
                  content |-> content, ts |-> ts, read |-> FALSE,
                  is_file |-> FALSE, file_id |-> <<>>]
         IN  IF AuthError(h) # NoResp
             THEN /\ Set(t, Answer(r, AuthError(h)))
                  /\ UNCHANGED <<nextId, clock, sent>>
             ELSE IF content = <<>>
             THEN /\ Set(t, Answer(r, Resp(400, "Message content is required", <<>>)))
                  /\ UNCHANGED <<nextId, clock, sent>>
             ELSE /\ nextId <= cfg.sends
                  /\ nextId' = nextId + 1
                  /\ clock' = ts
                  /\ sent' = Append(sent, message_data)
                  /\ Set(t, [r EXCEPT !.pc = "send_read", !.user = sender,
                                      !.msg = message_data])
    /\ UNCHANGED <<cfg, usersFile, tokensFile, blockedFile, msgdir, filesdir, nextTok,
                   nextFile, acked, wiped>>
    /\ Track(t)

\* save_message: the existing messages, json.load uncaught (a 500)
send_read(t) ==
    /\ At(t, "send_read")
    /\ LET path == MessagePath(thr[t].msg.sender, thr[t].msg.recipient)
       IN  IF path \in DOMAIN msgdir /\ ~msgdir[path].ok
           THEN Set(t, Answer(thr[t], Resp(500, "Internal Server Error", <<>>)))
           ELSE Set(t, [thr[t] EXCEPT !.pc = "send_open",
                                      !.msgs = Append(LoadOrSkip(path), thr[t].msg)])
    /\ UNCHANGED <<cfg, usersFile, tokensFile, blockedFile, msgdir, filesdir, nextTok,
                   nextFile, nextId, clock, sent, acked, wiped>>
    /\ Track(t)

\* save_message: open(message_path, 'w') creates or truncates the file
send_open(t) ==
    /\ At(t, "send_open")
    /\ msgdir' = With(msgdir, MessagePath(thr[t].msg.sender, thr[t].msg.recipient),
                      Truncated)
    /\ Set(t, [thr[t] EXCEPT !.pc = "send_dump", !.linked = TRUE])
    /\ UNCHANGED <<cfg, usersFile, tokensFile, blockedFile, filesdir, nextTok,
                   nextFile, nextId, clock, sent, acked, wiped>>
    /\ Track(t)

\* what json.dump and close leave in an open file
Dumped(r, path, msgs) ==
    IF r.linked /\ path \in DOMAIN msgdir
    THEN [msgdir EXCEPT ![path] = Overlay(msgdir[path], msgs, MsgsLen(msgs))]
    ELSE msgdir

\* save_message: json.dump and close, then the 201
send_dump(t) ==
    /\ At(t, "send_dump")
    /\ msgdir' = Dumped(thr[t], OpenPath(thr[t]), thr[t].msgs)
    /\ acked' = acked \cup {thr[t].msg.id}
    /\ Set(t, Answer(thr[t], Resp(201, "", <<>>)))
    /\ UNCHANGED <<cfg, usersFile, tokensFile, blockedFile, filesdir, nextTok,
                   nextFile, nextId, clock, sent, wiped>>
    /\ Track(t)

(***************************************************************************)
(* GET /messages/<recipient>                                               *)
(***************************************************************************)
get_user_messages(t) ==
    /\ At(t, "idle")
    /\ \E h \in cfg.headers, recipient \in cfg.peers :
         LET r == Begin("get_user_messages", h, recipient)
         IN  IF AuthError(h) # NoResp
             THEN Set(t, Answer(r, AuthError(h)))
             ELSE Set(t, [r EXCEPT !.pc = "get_read1", !.user = get_user_by_token(h)])
    /\ UNCHANGED <<cfg, usersFile, tokensFile, blockedFile, msgdir, filesdir, nextTok,
                   nextFile, nextId, clock, sent, acked, wiped>>
    /\ Track(t)

\* get_messages: message_path
get_read1(t) ==
    /\ At(t, "get_read1")
    /\ Set(t, [thr[t] EXCEPT !.pc = "get_read2",
                             !.msgs = LoadOrSkip(MessagePath(thr[t].user, thr[t].peer))])
    /\ UNCHANGED <<cfg, usersFile, tokensFile, blockedFile, msgdir, filesdir, nextTok,
                   nextFile, nextId, clock, sent, acked, wiped>>
    /\ Track(t)

\* get_messages: reverse_path, the sort, and the marking loop
get_read2(t) ==
    /\ At(t, "get_read2")
    /\ LET all == thr[t].msgs \o LoadOrSkip(MessagePath(thr[t].peer, thr[t].user))
       IN  /\ Len(all) <= MaxLog
           /\ Set(t, [thr[t] EXCEPT !.pc = "get_exists1",
                                 !.msgs = MarkRead(SortByTs(all), thr[t].user)])
    /\ UNCHANGED <<cfg, usersFile, tokensFile, blockedFile, msgdir, filesdir, nextTok,
                   nextFile, nextId, clock, sent, acked, wiped>>
    /\ Track(t)

\* if os.path.exists(message_path):
get_exists1(t) ==
    /\ At(t, "get_exists1")
    /\ Set(t, [thr[t] EXCEPT !.pc = IF MessagePath(thr[t].user, thr[t].peer) \in DOMAIN msgdir
                                    THEN "get_open1" ELSE "get_exists2"])
    /\ UNCHANGED <<cfg, usersFile, tokensFile, blockedFile, msgdir, filesdir, nextTok,
                   nextFile, nextId, clock, sent, acked, wiped>>
    /\ Track(t)

\* open(message_path, 'w') creates or truncates the file
get_open1(t) ==
    /\ At(t, "get_open1")
    /\ msgdir' = With(msgdir, MessagePath(thr[t].user, thr[t].peer), Truncated)
    /\ Set(t, [thr[t] EXCEPT !.pc = "get_dump1", !.linked = TRUE])
    /\ UNCHANGED <<cfg, usersFile, tokensFile, blockedFile, filesdir, nextTok,
                   nextFile, nextId, clock, sent, acked, wiped>>
    /\ Track(t)

\* json.dump([m for m in messages if m.get('sender') == sender])
get_dump1(t) ==
    /\ At(t, "get_dump1")
    /\ msgdir' = Dumped(thr[t], OpenPath(thr[t]), SentBy(thr[t].msgs, thr[t].user))
    /\ Set(t, [thr[t] EXCEPT !.pc = "get_exists2"])
    /\ UNCHANGED <<cfg, usersFile, tokensFile, blockedFile, filesdir, nextTok,
                   nextFile, nextId, clock, sent, acked, wiped>>
    /\ Track(t)

\* if os.path.exists(reverse_path): else the 200
get_exists2(t) ==
    /\ At(t, "get_exists2")
    /\ IF MessagePath(thr[t].peer, thr[t].user) \in DOMAIN msgdir
       THEN Set(t, [thr[t] EXCEPT !.pc = "get_open2"])
       ELSE Set(t, Answer(thr[t], Resp(200, "", thr[t].msgs)))
    /\ UNCHANGED <<cfg, usersFile, tokensFile, blockedFile, msgdir, filesdir, nextTok,
                   nextFile, nextId, clock, sent, acked, wiped>>
    /\ Track(t)

\* open(reverse_path, 'w') creates or truncates the file
get_open2(t) ==
    /\ At(t, "get_open2")
    /\ msgdir' = With(msgdir, MessagePath(thr[t].peer, thr[t].user), Truncated)
    /\ Set(t, [thr[t] EXCEPT !.pc = "get_dump2", !.linked = TRUE])
    /\ UNCHANGED <<cfg, usersFile, tokensFile, blockedFile, filesdir, nextTok,
                   nextFile, nextId, clock, sent, acked, wiped>>
    /\ Track(t)

\* json.dump([m for m in messages if m.get('sender') == recipient]), the 200
get_dump2(t) ==
    /\ At(t, "get_dump2")
    /\ msgdir' = Dumped(thr[t], OpenPath(thr[t]), SentBy(thr[t].msgs, thr[t].peer))
    /\ Set(t, Answer(thr[t], Resp(200, "", thr[t].msgs)))
    /\ UNCHANGED <<cfg, usersFile, tokensFile, blockedFile, filesdir, nextTok,
                   nextFile, nextId, clock, sent, acked, wiped>>
    /\ Track(t)

(***************************************************************************)
(* POST /files/<recipient> and GET /files/<file_id>                        *)
(***************************************************************************)
\* str.strip(chars)
RECURSIVE LStrip(_, _)
LStrip(s, chars) ==
    IF s # <<>> /\ s[1] \in chars THEN LStrip(Tail(s), chars) ELSE s

RECURSIVE RStrip(_, _)
RStrip(s, chars) ==
    IF s # <<>> /\ s[Len(s)] \in chars THEN RStrip(SubSeq(s, 1, Len(s) - 1), chars) ELSE s

\* werkzeug's secure_filename on names of letters, '.', '_', '-' and '/':
\* the path separators become '_', then leading and trailing '.', '_' go
secure_filename(name) ==
    LET flat == [i \in 1..Len(name) |-> IF name[i] = "/" THEN "_" ELSE name[i]]
    IN  RStrip(LStrip(flat, {".", "_"}), {".", "_"})

\* uuid.uuid4().hex, one character here
Uuid(n) == "u" \o ToString(n)

\* f"{uuid.uuid4().hex}_{filename}"
UniqueFilename(n, filename) == <<Uuid(n)>> \o <<"_">> \o filename

\* file_id.split('_', 1)[1]
AfterFirst(s, sep) ==
    LET at == CHOOSE i \in 1..Len(s) : s[i] = sep /\ \A j \in 1..(i - 1) : s[j] # sep
    IN  SubSeq(s, at + 1, Len(s))

\* the request's file part: none, one with an empty filename, or a named one
Uploads == {[part |-> FALSE, filename |-> <<>>], [part |-> TRUE, filename |-> <<>>]}
             \cup {[part |-> TRUE, filename |-> n] : n \in UploadNames}

\* a variant of send_file that stores the upload before it looks at the token
send_file_unchecked(t) ==
    /\ At(t, "idle")
    /\ nextFile <= cfg.files
    /\ \E h \in cfg.headers, recipient \in cfg.peers, name \in UploadNames :
         LET r == Begin("send_file", h, recipient)
         IN  /\ filesdir' = With(filesdir, UniqueFilename(nextFile, secure_filename(name)),
                                 [sender |-> NoName])
             /\ nextFile' = nextFile + 1
             /\ Set(t, Answer(r, IF AuthError(h) # NoResp THEN AuthError(h)
                                 ELSE Resp(201, "", <<>>)))
    /\ UNCHANGED <<cfg, usersFile, tokensFile, blockedFile, msgdir, nextTok,
                   nextId, clock, sent, acked, wiped>>
    /\ Track(t)

send_file(t) ==
    /\ At(t, "idle")
    /\ \E h \in cfg.headers, recipient \in cfg.peers, file \in Uploads :
         LET r == Begin("send_file", h, recipient)
         IN  IF AuthError(h) # NoResp
             THEN Set(t, Answer(r, AuthError(h)))
             ELSE IF ~file.part
             THEN Set(t, Answer(r, Resp(400, "No file part", <<>>)))
             ELSE IF file.filename = <<>>
             THEN Set(t, Answer(r, Resp(400, "No selected file", <<>>)))
             ELSE /\ nextFile <= cfg.files
                  /\ nextId <= cfg.sends
                  /\ Set(t, [r EXCEPT !.pc = "file_save", !.user = get_user_by_token(h),
                                      !.msg = [NoMsg EXCEPT !.content =
                                                   secure_filename(file.filename)]])
    /\ UNCHANGED <<cfg, usersFile, tokensFile, blockedFile, msgdir, filesdir, nextTok,
                   nextFile, nextId, clock, sent, acked, wiped>>
    /\ Track(t)

\* file.save(file_path), then message_data; save_message follows
file_save(t) ==
    /\ At(t, "file_save")
    /\ nextFile <= cfg.files
    /\ nextId <= cfg.sends
    /\ \E ts \in Now :
         LET filename == thr[t].msg.content
             unique_filename == UniqueFilename(nextFile, filename)
             message_data ==
                 [id |-> nextId, sender |-> thr[t].user, recipient |-> thr[t].peer,
                  content |-> filename, ts |-> ts, read |-> FALSE,
                  is_file |-> TRUE, file_id |-> unique_filename]
         IN  /\ filesdir' = With(filesdir, unique_filename, [sender |-> NoName])
             /\ nextFile' = nextFile + 1
             /\ nextId' = nextId + 1
             /\ clock' = ts
             /\ sent' = Append(sent, message_data)
             /\ Set(t, [thr[t] EXCEPT !.pc = "send_read", !.msg = message_data])
    /\ UNCHANGED <<cfg, usersFile, tokensFile, blockedFile, msgdir, nextTok,
                   acked, wiped>>
    /\ Track(t)

\* the ids a client may ask for: those send_file can have made, stored or not
FileIds == {UniqueFilename(n, secure_filename(f)) : n \in 1..cfg.files, f \in UploadNames}

download_file(t) ==
    /\ At(t, "idle")
    /\ \E h \in cfg.headers, file_id \in FileIds :
         LET r == Begin("download_file", h, file_id)
         IN  IF AuthError(h) # NoResp
             THEN Set(t, Answer(r, AuthError(h)))
             ELSE Set(t, [r EXCEPT !.pc = "download_read"])
    /\ UNCHANGED <<cfg, usersFile, tokensFile, blockedFile, msgdir, filesdir, nextTok,
                   nextFile, nextId, clock, sent, acked, wiped>>
    /\ Track(t)

\* os.path.exists(file_path), then line 380: the name send_file is bound to
\* the view function of line 311, which the def rebinds after the import of
\* line 9, and that function takes no as_attachment: a TypeError, answered 500
download_read(t) ==
    /\ At(t, "download_read")
    /\ IF thr[t].peer \notin DOMAIN filesdir
       THEN Set(t, Answer(thr[t], Resp(404, "File not found", <<>>)))
       ELSE LET original_filename == AfterFirst(thr[t].peer, "_")
            IN  Set(t, Answer(thr[t], Resp(500, "Internal Server Error", <<>>)))
    /\ UNCHANGED <<cfg, usersFile, tokensFile, blockedFile, msgdir, filesdir, nextTok,
                   nextFile, nextId, clock, sent, acked, wiped>>
    /\ Track(t)

(***************************************************************************)
(* GET /chats                                                              *)
(***************************************************************************)
\* the two handles get_user_chats and delete_account read off a file name:
\* parts = filename.split('_'); parts[0], parts[1].split('.')[0]
ParsedUsers(filename) ==
    LET parts == Split(filename, "_")
    IN  <<parts[1], Split(parts[2], ".")[1]>>

\* `filename.endswith('.json')` and `len(parts) >= 2`
Parses(filename) == EndsWith(filename, Ext) /\ Len(Split(filename, "_")) >= 2

\* os.listdir: the names in an order of the file system's choosing
Listings(names) ==
    {order \in [1..Cardinality(names) -> names] :
        \A i, j \in 1..Cardinality(names) : i # j => order[i] # order[j]}

Unread(msgs, username) ==
    Len(SelectSeq(msgs, LAMBDA m : m.recipient = username /\ ~m.read))

\* chats.sort(key=timestamp, reverse=True): stable, equal keys keep their order
RECURSIVE InsertDesc(_, _)
InsertDesc(sorted, c) ==
    IF sorted = <<>> THEN <<c>>
    ELSE IF sorted[Len(sorted)].timestamp >= c.timestamp THEN Append(sorted, c)
    ELSE Append(InsertDesc(SubSeq(sorted, 1, Len(sorted) - 1), c), sorted[Len(sorted)])

RECURSIVE SortDesc(_)
SortDesc(chats) ==
    IF chats = <<>> THEN <<>>
    ELSE InsertDesc(SortDesc(SubSeq(chats, 1, Len(chats) - 1)), chats[Len(chats)])

\* the loop of get_user_chats over the listing, up to file i
RECURSIVE ChatsUpTo(_, _, _)
ChatsUpTo(listing, i, username) ==
    IF i = 0 THEN <<>>
    ELSE LET before == ChatsUpTo(listing, i - 1, username)
             filename == listing[i]
             user1 == ParsedUsers(filename)[1]
             user2 == ParsedUsers(filename)[2]
             messages == get_messages(user1, user2)
         IN  IF /\ Parses(filename)
                /\ (user1 = username \/ user2 = username)
                /\ messages # <<>>
             THEN Append(before,
                         [username |-> IF user1 = username THEN user2 ELSE user1,
                          last_message |-> messages[Len(messages)].content,
                          timestamp |-> messages[Len(messages)].ts,
                          is_file |-> messages[Len(messages)].is_file,
                          unread |-> Unread(messages, username)])
             ELSE before

get_user_chats(listing, username) == SortDesc(ChatsUpTo(listing, Len(listing), username))

get_chats(t) ==
    /\ At(t, "idle")
    /\ \E h \in cfg.headers :
         LET r == Begin("get_chats", h, NoName)
         IN  IF AuthError(h) # NoResp
             THEN Set(t, Answer(r, AuthError(h)))
             ELSE Set(t, [r EXCEPT !.pc = "chats_read", !.user = get_user_by_token(h)])
    /\ UNCHANGED <<cfg, usersFile, tokensFile, blockedFile, msgdir, filesdir, nextTok,
                   nextFile, nextId, clock, sent, acked, wiped>>
    /\ Track(t)

\* get_user_chats: the listing and the files, read in one go
chats_read(t) ==
    /\ At(t, "chats_read")
    /\ \E listing \in Listings(DOMAIN msgdir) :
         Set(t, Answer(thr[t], Resp(200, "", get_user_chats(listing, thr[t].user))))
    /\ UNCHANGED <<cfg, usersFile, tokensFile, blockedFile, msgdir, filesdir, nextTok,
                   nextFile, nextId, clock, sent, acked, wiped>>
    /\ Track(t)

(***************************************************************************)
(* DELETE /chats/<username>                                                *)
(***************************************************************************)
delete_chat(t) ==
    /\ At(t, "idle")
    /\ \E h \in cfg.headers, username \in cfg.peers :
         LET r == Begin("delete_chat", h, username)
         IN  IF AuthError(h) # NoResp
             THEN Set(t, Answer(r, AuthError(h)))
             ELSE Set(t, [r EXCEPT !.pc = "chat_remove1", !.user = get_user_by_token(h)])
    /\ UNCHANGED <<cfg, usersFile, tokensFile, blockedFile, msgdir, filesdir, nextTok,
                   nextFile, nextId, clock, sent, acked, wiped>>
    /\ Track(t)

\* if os.path.exists(message_path): os.remove(message_path)
chat_remove1(t) ==
    /\ At(t, "chat_remove1")
    /\ LET paths == {MessagePath(thr[t].user, thr[t].peer)}
       IN  /\ Remove(paths)
           /\ thr' = Unlinked(t, [thr[t] EXCEPT !.pc = "chat_remove2"], paths)
    /\ UNCHANGED <<cfg, usersFile, tokensFile, blockedFile, filesdir, nextTok,
                   nextFile, nextId, clock, sent, acked>>
    /\ Track(t)

\* if os.path.exists(reverse_path): os.remove(reverse_path), then the 200
chat_remove2(t) ==
    /\ At(t, "chat_remove2")
    /\ LET paths == {MessagePath(thr[t].peer, thr[t].user)}
       IN  /\ Remove(paths)
           /\ thr' = Unlinked(t, Answer(thr[t], Resp(200, "", <<>>)), paths)
    /\ UNCHANGED <<cfg, usersFile, tokensFile, blockedFile, filesdir, nextTok,
                   nextFile, nextId, clock, sent, acked>>
    /\ Track(t)

(***************************************************************************)
(* DELETE /account                                                         *)
(***************************************************************************)
delete_account(t) ==
    /\ At(t, "idle")
    /\ \E h \in cfg.headers :
         LET r == Begin("delete_account", h, NoName)
             \* the route strips "Bearer " itself, then get_user_by_token again
             token == StripBearer(h)
         IN  IF h = NoHeader
             THEN Set(t, Answer(r, Resp(401, "Authorization token is required", <<>>)))
             ELSE IF get_user_by_token(token) = NoName
             THEN Set(t, Answer(r, Resp(401, "Invalid token", <<>>)))
             ELSE Set(t, [r EXCEPT !.pc = "account_users",
                                   !.user = get_user_by_token(token)])
    /\ UNCHANGED <<cfg, usersFile, tokensFile, blockedFile, msgdir, filesdir, nextTok,
                   nextFile, nextId, clock, sent, acked, wiped>>
    /\ Track(t)

\* users = get_users(); the 404; del users[username]
account_users(t) ==
    /\ At(t, "account_users")
    /\ LET users == get_users
       IN  IF thr[t].user \notin DOMAIN users
           THEN Set(t, Answer(thr[t], Resp(404, "User not found", <<>>)))
           ELSE Set(t, [thr[t] EXCEPT !.pc = "account_open",
                                      !.map = Without(users, thr[t].user)])
    /\ UNCHANGED <<cfg, usersFile, tokensFile, blockedFile, msgdir, filesdir, nextTok,
                   nextFile, nextId, clock, sent, acked, wiped>>
    /\ Track(t)

account_open(t) ==
    /\ At(t, "account_open")
    /\ usersFile' = Truncated
    /\ Set(t, [thr[t] EXCEPT !.pc = "account_dump"])
    /\ UNCHANGED <<cfg, tokensFile, blockedFile, msgdir, filesdir, nextTok, nextFile,
                   nextId, clock, sent, acked, wiped>>
    /\ Track(t)

account_dump(t) ==
    /\ At(t, "account_dump")
    /\ usersFile' = Overlay(usersFile, thr[t].map, UsersLen(thr[t].map))
    /\ Set(t, [thr[t] EXCEPT !.pc = "account_messages", !.map = EmptyMap])
    /\ UNCHANGED <<cfg, tokensFile, blockedFile, msgdir, filesdir, nextTok, nextFile,
                   nextId, clock, sent, acked, wiped>>
    /\ Track(t)

\* the message files the loop of delete_account removes
FilesOf(username) ==
    {f \in DOMAIN msgdir :
        /\ Parses(f)
        /\ (ParsedUsers(f)[1] = username \/ ParsedUsers(f)[2] = username)}

\* "Delete all messages involving this user": the listing and the removals
account_messages(t) ==
    /\ At(t, "account_messages")
    /\ LET paths == FilesOf(thr[t].user)
       IN  /\ Remove(paths)
           /\ thr' = Unlinked(t, [thr[t] EXCEPT !.pc = "account_files"], paths)
    /\ UNCHANGED <<cfg, usersFile, tokensFile, blockedFile, filesdir, nextTok,
                   nextFile, nextId, clock, sent, acked>>
    /\ Track(t)

\* "Delete all files sent by this user": json.load of each upload, and
\* os.remove of those that are JSON objects whose 'sender' is the user
UploadsOf(username) == {f \in DOMAIN filesdir : filesdir[f].sender = username}

account_files(t) ==
    /\ At(t, "account_files")
    /\ filesdir' = [f \in DOMAIN filesdir \ UploadsOf(thr[t].user) |-> filesdir[f]]
    /\ Set(t, [thr[t] EXCEPT !.pc = "account_tokens"])
    /\ UNCHANGED <<cfg, usersFile, tokensFile, blockedFile, msgdir, nextTok, nextFile,
                   nextId, clock, sent, acked, wiped>>
    /\ Track(t)

\* tokens = get_tokens(); del tokens[t] for every token of the user
account_tokens(t) ==
    /\ At(t, "account_tokens")
    /\ LET tokens == get_tokens
       IN  Set(t, [thr[t] EXCEPT !.pc = "account_topen",
                     !.map = [k \in {x \in DOMAIN tokens : tokens[x] # thr[t].user}
                                |-> tokens[k]]])
    /\ UNCHANGED <<cfg, usersFile, tokensFile, blockedFile, msgdir, filesdir, nextTok,
                   nextFile, nextId, clock, sent, acked, wiped>>
    /\ Track(t)

account_topen(t) ==
    /\ At(t, "account_topen")
    /\ tokensFile' = Truncated
    /\ Set(t, [thr[t] EXCEPT !.pc = "account_tdump"])
    /\ UNCHANGED <<cfg, usersFile, blockedFile, msgdir, filesdir, nextTok, nextFile,
                   nextId, clock, sent, acked, wiped>>
    /\ Track(t)

account_tdump(t) ==
    /\ At(t, "account_tdump")
    /\ tokensFile' = Overlay(tokensFile, thr[t].map, TokensLen(thr[t].map))
    /\ Set(t, Answer(thr[t], Resp(200, "", <<>>)))
    /\ UNCHANGED <<cfg, usersFile, blockedFile, msgdir, filesdir, nextTok, nextFile,
                   nextId, clock, sent, acked, wiped>>
    /\ Track(t)

(***************************************************************************)
(* GET /users, GET /user/<username>, GET /blocked/<username>               *)
(***************************************************************************)
users(t) ==
    /\ At(t, "idle")
    /\ \E h \in cfg.headers :
         LET r == Begin("users", h, NoName)
         IN  IF AuthError(h) # NoResp
             THEN Set(t, Answer(r, AuthError(h)))
             ELSE Set(t, [r EXCEPT !.pc = "users_read", !.user = get_user_by_token(h)])
    /\ UNCHANGED <<cfg, usersFile, tokensFile, blockedFile, msgdir, filesdir, nextTok,
                   nextFile, nextId, clock, sent, acked, wiped>>
    /\ Track(t)

users_read(t) ==
    /\ At(t, "users_read")
    /\ Set(t, Answer(thr[t], Resp(200, "", <<DOMAIN get_users \ {thr[t].user}>>)))
    /\ UNCHANGED <<cfg, usersFile, tokensFile, blockedFile, msgdir, filesdir, nextTok,
                   nextFile, nextId, clock, sent, acked, wiped>>
    /\ Track(t)

\* both routes strip "Bearer " themselves before get_user_by_token
Stripped(op, h, username, pc) ==
    LET r == Begin(op, h, username)
        token == StripBearer(h)
    IN  IF h = NoHeader
        THEN Answer(r, Resp(401, "Authorization token is required", <<>>))
        ELSE IF get_user_by_token(token) = NoName
        THEN Answer(r, Resp(401, "Invalid token", <<>>))
        ELSE [r EXCEPT !.pc = pc, !.user = get_user_by_token(token)]

check_user(t) ==
    /\ At(t, "idle")
    /\ \E h \in cfg.headers, username \in cfg.peers :
         Set(t, Stripped("check_user", h, username, "user_read"))
    /\ UNCHANGED <<cfg, usersFile, tokensFile, blockedFile, msgdir, filesdir, nextTok,
                   nextFile, nextId, clock, sent, acked, wiped>>
    /\ Track(t)

user_read(t) ==
    /\ At(t, "user_read")
    /\ Set(t, Answer(thr[t], Resp(200, "", <<thr[t].peer \in DOMAIN get_users>>)))
    /\ UNCHANGED <<cfg, usersFile, tokensFile, blockedFile, msgdir, filesdir, nextTok,
                   nextFile, nextId, clock, sent, acked, wiped>>
    /\ Track(t)

check_blocked(t) ==
    /\ At(t, "idle")
    /\ \E h \in cfg.headers, username \in cfg.peers :
         Set(t, Stripped("check_blocked", h, username, "blocked_read"))
    /\ UNCHANGED <<cfg, usersFile, tokensFile, blockedFile, msgdir, filesdir, nextTok,
                   nextFile, nextId, clock, sent, acked, wiped>>
    /\ Track(t)

\* blocked_data.get(user, [])
BlockedBy(user) ==
    IF blockedFile.ok /\ user \in DOMAIN blockedFile.data
    THEN blockedFile.data[user] ELSE {}

is_blocked(requester, username) ==
    username \in BlockedBy(requester) \/ requester \in BlockedBy(username)

blocked_read(t) ==
    /\ At(t, "blocked_read")
    /\ Set(t, Answer(thr[t], Resp(200, "", <<is_blocked(thr[t].user, thr[t].peer)>>)))
    /\ UNCHANGED <<cfg, usersFile, tokensFile, blockedFile, msgdir, filesdir, nextTok,
                   nextFile, nextId, clock, sent, acked, wiped>>
    /\ Track(t)

(***************************************************************************)
(* POST /blocked and DELETE /blocked/<username>, the requests block_user   *)
(* and unblock_user of terminalchat.py send: the server has no such route  *)
(* (the only rule for /blocked/<username> is the GET of check_blocked).    *)
(***************************************************************************)
\* a variant of block_user without the comparison of line 330
block_user_unchecked(t) ==
    /\ At(t, "idle")
    /\ \E h \in cfg.headers, username \in cfg.peers :
         LET current_user == get_user_by_token(h)
         IN  /\ current_user # NoName
             /\ Set(t, Answer([Begin("block_user", h, username)
                                  EXCEPT !.user = current_user],
                              Resp(404, "Not Found", <<>>)))
    /\ UNCHANGED <<cfg, usersFile, tokensFile, blockedFile, msgdir, filesdir, nextTok,
                   nextFile, nextId, clock, sent, acked, wiped>>
    /\ Track(t)

\* block_user: the caller is logged in.  Its own name is refused by the
\* client (line 330-332) and no request is sent: a response with status 0.
\* For any other name the request is sent, the answer is Flask's 404 and no
\* handler runs.
block_user(t) ==
    /\ At(t, "idle")
    /\ \E h \in cfg.headers, username \in cfg.peers :
         LET current_user == get_user_by_token(h)
             r == [Begin("block_user", h, username) EXCEPT !.user = current_user]
         IN  /\ current_user # NoName
             /\ IF current_user = username
                THEN Set(t, Answer(r, Resp(0, "You cannot block yourself!", <<>>)))
                ELSE Set(t, Answer(r, Resp(404, "Not Found", <<>>)))
    /\ UNCHANGED <<cfg, usersFile, tokensFile, blockedFile, msgdir, filesdir, nextTok,
                   nextFile, nextId, clock, sent, acked, wiped>>
    /\ Track(t)

\* unblock_user: the caller is logged in; the answer is Flask's 405
unblock_user(t) ==
    /\ At(t, "idle")
    /\ \E h \in cfg.headers, username \in cfg.peers :
         /\ get_user_by_token(h) # NoName
         /\ Set(t, Answer([Begin("unblock_user", h, username)
                              EXCEPT !.user = get_user_by_token(h)],
                          Resp(405, "Method Not Allowed", <<>>)))
    /\ UNCHANGED <<cfg, usersFile, tokensFile, blockedFile, msgdir, filesdir, nextTok,
                   nextFile, nextId, clock, sent, acked, wiped>>
    /\ Track(t)

(***************************************************************************)
(* The server.                                                             *)
(***************************************************************************)
\* the response is sent and the thread waits for the next request
respond(t) ==
    /\ At(t, "done")
    /\ Set(t, Idle)
    /\ dirty' = [dirty EXCEPT ![t] = FALSE]
    /\ found' = [found EXCEPT ![t] = EmptyMap]
    /\ UNCHANGED <<cfg, usersFile, tokensFile, blockedFile, msgdir, filesdir, nextTok,
                   nextFile, nextId, clock, sent, acked, wiped, wasRead, issued, revoked>>

SessionStep(t) ==
    \/ signup(t) \/ signup_open(t) \/ signup_dump(t)
    \/ login(t) \/ login_read(t) \/ login_open(t) \/ login_dump(t)
    \/ logout(t) \/ logout_open(t) \/ logout_dump(t)

SendStep(t) == send_message(t) \/ send_read(t) \/ send_open(t) \/ send_dump(t)

FetchStep(t) ==
    \/ get_user_messages(t) \/ get_read1(t) \/ get_read2(t)
    \/ get_exists1(t) \/ get_open1(t) \/ get_dump1(t)
    \/ get_exists2(t) \/ get_open2(t) \/ get_dump2(t)

FileStep(t) == send_file(t) \/ file_save(t) \/ download_file(t) \/ download_read(t)

ChatStep(t) ==
    \/ get_chats(t) \/ chats_read(t)
    \/ delete_chat(t) \/ chat_remove1(t) \/ chat_remove2(t)

AccountStep(t) ==
    \/ delete_account(t) \/ account_users(t) \/ account_open(t) \/ account_dump(t)
    \/ account_messages(t) \/ account_files(t)
    \/ account_tokens(t) \/ account_topen(t) \/ account_tdump(t)

QueryStep(t) ==
    \/ users(t) \/ users_read(t) \/ check_user(t) \/ user_read(t)
    \/ check_blocked(t) \/ blocked_read(t)

Step(t) ==
    \/ respond(t)
    \/ SessionStep(t) \/ SendStep(t) \/ FetchStep(t) \/ FileStep(t)
    \/ ChatStep(t) \/ AccountStep(t) \/ QueryStep(t)

Quiescent == \A t \in Threads : thr[t].pc \in {"idle", "done"}

\* the header a client of terminalchat.py sends for token k (server_request)
Bearer(k) == [pre |-> "Bearer ", tok |-> k]
Raw(k) == [pre |-> "", tok |-> k]

(***************************************************************************)
(* Spec: one client and every route, from the empty data files.  The       *)
(* client sends a request when the last one is answered.                   *)
(***************************************************************************)
Config ==
    [users |-> {Alice}, peers |-> {Alice, Bob}, passwords |-> {Password},
     headers |-> HeadersOf(MaxTokens), contents |-> Contents \cup {<<>>},
     sends |-> MaxSends, tokens |-> MaxTokens, files |-> MaxFiles]

Init == Fresh(Config)

Next == Step(MainThread)

Spec == Init /\ [][Next]_vars

(***************************************************************************)
(* The server with its users signed up and logged in.                      *)
(***************************************************************************)
\* users.json after the signup of each of `names`
Signed(names) ==
    [u \in names |-> [password_hash |-> Hash(Password, Salt), salt |-> Salt]]

\* tokens.json after logins: token k is a session of sessions[k]
TokensOf(sessions) == [k \in 1..Len(sessions) |-> sessions[k]]

\* blocked.json as found at startup, an entry is "<username>": [<username>, ...]
BlockedLen(d) ==
    2 + SumSet(DOMAIN d, [u \in DOMAIN d |->
                            10 + Len(u) + SumSet(d[u], [v \in d[u] |-> 10 + Len(v)])])

\* messages/ after the sends of `msgs`, one after the other
DirOf(msgs) ==
    [p \in {MessagePath(msgs[i].sender, msgs[i].recipient) : i \in 1..Len(msgs)} |->
        LET log == SelectSeq(msgs, LAMBDA m : MessagePath(m.sender, m.recipient) = p)
        IN  Doc(log, MsgsLen(log))]

\* the state after those signups, logins and sends, with blocked.json as
\* lines 38-40 found it
Ready(c, sessions, blocked, msgs) ==
    /\ cfg = c
    /\ usersFile = Doc(Signed(c.users), UsersLen(Signed(c.users)))
    /\ tokensFile = Doc(TokensOf(sessions), TokensLen(TokensOf(sessions)))
    /\ blockedFile = Doc(blocked, BlockedLen(blocked))
    /\ msgdir = DirOf(msgs)
    /\ filesdir = EmptyMap
    /\ thr = [t \in Threads |-> Idle]
    /\ nextTok = Len(sessions) + 1
    /\ nextFile = 1
    /\ nextId = Len(msgs) + 1
    /\ clock = Len(msgs)
    /\ sent = msgs
    /\ acked = 1..Len(msgs)
    /\ wiped = {}
    /\ dirty = [t \in Threads |-> FALSE]
    /\ found = [t \in Threads |-> EmptyMap]
    /\ wasRead = {}
    /\ issued = TokensOf(sessions)
    /\ revoked = {}

\* the clients of Alice and Bob, each with a session, as terminalchat.py
\* sends its requests
Talkers ==
    [users |-> {Alice, Bob}, peers |-> {Alice, Bob}, passwords |-> {Password},
     headers |-> {Bearer(1), Bearer(2)}, contents |-> Contents,
     sends |-> RaceSends, tokens |-> RaceTokens, files |-> 0]

(***************************************************************************)
(* SpecSend: the sends of Alice and Bob, served on two threads.            *)
(***************************************************************************)
InitSend == Ready(Talkers, <<Alice, Bob>>, EmptyMap, <<>>)

NextSend == \E t \in Threads : respond(t) \/ SendStep(t)

SpecSend == InitSend /\ [][NextSend]_vars

(***************************************************************************)
(* SpecFetch: one thread serves the sends, the other the fetches.          *)
(***************************************************************************)
NextFetch ==
    \/ \E t \in Threads : respond(t)
    \/ SendStep(MainThread)
    \/ \E t \in Threads \ {MainThread} : FetchStep(t)

SpecFetch == InitSend /\ [][NextFetch]_vars

(***************************************************************************)
(* SpecReaders: Alice has sent Bob a message; both fetch the conversation, *)
(* on two threads.                                                         *)
(***************************************************************************)
Hello ==
    [id |-> 1, sender |-> Alice, recipient |-> Bob, content |-> <<"h", "i">>,
     ts |-> 1, read |-> FALSE, is_file |-> FALSE, file_id |-> <<>>]

InitReaders == Ready(Talkers, <<Alice, Bob>>, EmptyMap, <<Hello>>)

NextReaders == \E t \in Threads : respond(t) \/ FetchStep(t)

SpecReaders == InitReaders /\ [][NextReaders]_vars

(***************************************************************************)
(* SpecSessions: Alice and Bob log in and out, on two threads.             *)
(***************************************************************************)
Visitors ==
    [users |-> {Alice, Bob}, peers |-> {Alice, Bob}, passwords |-> {Password},
     headers |-> HeadersOf(RaceTokens), contents |-> Contents,
     sends |-> 0, tokens |-> RaceTokens, files |-> 0]

InitSessions == Ready(Visitors, <<>>, EmptyMap, <<>>)

NextSessions ==
    \E t \in Threads :
        \/ respond(t)
        \/ login(t) \/ login_read(t) \/ login_open(t) \/ login_dump(t)
        \/ logout(t) \/ logout_open(t) \/ logout_dump(t)

SpecSessions == InitSessions /\ [][NextSessions]_vars

(***************************************************************************)
(* SpecTalk: one client sends, fetches and lists the chats for Alice and  *)
(* Bob in turn.                                                            *)
(***************************************************************************)
NextTalk ==
    \/ respond(MainThread)
    \/ SendStep(MainThread)
    \/ FetchStep(MainThread)
    \/ get_chats(MainThread) \/ chats_read(MainThread)

SpecTalk == InitSend /\ [][NextTalk]_vars

(***************************************************************************)
(* SpecBlocked: the server is started with a blocked.json in which Alice   *)
(* has blocked Bob; one client sends and asks GET /blocked/<username>.     *)
(***************************************************************************)
AliceBlocksBob == [u \in {Alice} |-> {Bob}]

InitBlocked ==
    \E blocked \in {EmptyMap, AliceBlocksBob} :
        Ready(Talkers, <<Alice, Bob>>, blocked, <<>>)

NextBlocked ==
    \/ respond(MainThread)
    \/ SendStep(MainThread)
    \/ check_blocked(MainThread) \/ blocked_read(MainThread)
    \/ block_user(MainThread) \/ unblock_user(MainThread)

SpecBlocked == InitBlocked /\ [][NextBlocked]_vars

(***************************************************************************)
(* SpecHandles: a handle with '_' in it.  One client sends, fetches, lists  *)
(* the chats and deletes the account, for "a_b" and for "a"; the peer of a *)
(* request may also be "b_a", a handle nobody signed up with.              *)
(***************************************************************************)
Underscored ==
    [users |-> {AliceBob, Alice}, peers |-> {AliceBob, Alice, BobAlice},
     passwords |-> {Password}, headers |-> {Bearer(1), Bearer(2)},
     contents |-> Contents, sends |-> RaceSends, tokens |-> RaceTokens, files |-> 0]

InitHandles == Ready(Underscored, <<AliceBob, Alice>>, EmptyMap, <<>>)

NextHandles ==
    \/ respond(MainThread)
    \/ SendStep(MainThread)
    \/ FetchStep(MainThread)
    \/ get_chats(MainThread) \/ chats_read(MainThread)
    \/ AccountStep(MainThread)

SpecHandles == InitHandles /\ [][NextHandles]_vars

(***************************************************************************)
(* SpecLeave: Alice, logged in, deletes her account on one thread while    *)
(* Alice and Bob log in on the other.                                      *)
(***************************************************************************)
InitLeave == Ready(Visitors, <<Alice>>, EmptyMap, <<>>)

NextLeave ==
    \/ \E t \in Threads : respond(t)
    \/ AccountStep(MainThread)
    \/ \E t \in Threads \ {MainThread} :
          login(t) \/ login_read(t) \/ login_open(t) \/ login_dump(t)

SpecLeave == InitLeave /\ [][NextLeave]_vars

(***************************************************************************)
(* SpecTwice: two fetches one after the other and nothing in between: the  *)
(* second request arrives once the first is answered.                      *)
(***************************************************************************)
Note == [Hello EXCEPT !.recipient = Alice]

InitTwice == \E m \in {Hello, Note} : Ready(Talkers, <<Alice, Bob>>, EmptyMap, <<m>>)

NextTwice ==
    \E u \in Threads \ {MainThread} :
        \/ At(u, "idle") /\ FetchStep(MainThread)
        \/ At(MainThread, "done") /\ FetchStep(u)
        \/ At(u, "done") /\ respond(MainThread)
        \/ At(MainThread, "idle") /\ respond(u)

SpecTwice == InitTwice /\ [][NextTwice]_vars

(***************************************************************************)
(* SpecForget: one thread serves the chat list and the deletion of         *)
(* conversations, the other the fetches.                                   *)
(***************************************************************************)
NextForget ==
    \/ \E t \in Threads : respond(t)
    \/ ChatStep(MainThread)
    \/ \E t \in Threads \ {MainThread} : FetchStep(t)

SpecForget == InitReaders /\ [][NextForget]_vars

(***************************************************************************)
(* SpecJoin: the signups of Alice and Bob, served on two threads, from     *)
(* the empty data files.                                                   *)
(***************************************************************************)
NextJoin == \E t \in Threads : respond(t) \/ signup(t) \/ signup_open(t) \/ signup_dump(t)

SpecJoin == Fresh(Visitors) /\ [][NextJoin]_vars

(***************************************************************************)
(* Properties.                                                             *)
(***************************************************************************)
\* the stored log of the conversation of a and b: its files, as many as exist
PathsOf(a, b) == {MessagePath(a, b), MessagePath(b, a)} \cap DOMAIN msgdir

LogLen(a, b) == SumSet(PathsOf(a, b), [p \in PathsOf(a, b) |-> Len(LoadOrSkip(p))])

Between(a, b) == {i \in 1..Len(sent) : {sent[i].sender, sent[i].recipient} = {a, b}}

\* C1: when every request has returned, the log of each conversation holds as
\* many messages as send requests on it were answered 201: no append is lost.
C1_NoLostAppend ==
    Quiescent =>
        \A a, b \in cfg.peers :
            a # b => LogLen(a, b) = Cardinality(acked \cap Between(a, b))

\* C2: when every request has returned, each message from one user to another
\* whose send was answered 201 is in the stored log, unless a delete has
\* removed its file since.
C2_AckedStays ==
    Quiescent =>
        {i \in acked \ wiped : sent[i].sender # sent[i].recipient}
            \subseteq {m.id : m \in Stored(msgdir)}

\* C3: a message that a file has held with read true is never stored with
\* read false afterwards.
C3_ReadNeverReverts == \A m \in Stored(msgdir) : m.id \in wasRead => m.read

C5_BlockedSendFails ==
    \A t \in Threads :
        /\ At(t, "done")
        /\ thr[t].op = "send_message"
        /\ thr[t].user # NoName
        /\ is_blocked(thr[t].user, thr[t].peer)
        => thr[t].resp.status # 201 /\ ~dirty[t]

\* C6: when a logout request that carried a token has returned, the header it
\* carried resolves to no user.
C6_LogoutRevokes ==
    \A t \in Threads :
        At(t, "done") /\ thr[t].op = "logout" /\ thr[t].hdr # NoHeader
        => get_user_by_token(thr[t].hdr) = NoName

\* C7: when every request has returned, a token that a login returned, that no
\* logout request has carried and whose user still has the account resolves to
\* that login's username.
C7_TokenStaysValid ==
    Quiescent =>
        \A k \in DOMAIN issued \ revoked :
            issued[k] \in DOMAIN get_users => get_user_by_token(Raw(k)) = issued[k]

\* the routes C8 lists
Protected ==
    {"users", "get_user_messages", "send_message", "send_file", "download_file",
     "get_chats", "delete_chat", "delete_account", "check_user", "check_blocked"}

\* C8: a protected route answers 401 "Authorization token is required" to a
\* request without the header, and 401 "Invalid token" to one whose token was
\* not in tokens.json when it arrived.
C8_TokenErrors ==
    \A t \in Threads :
        At(t, "done") /\ thr[t].op \in Protected =>
            /\ thr[t].hdr = NoHeader =>
                   thr[t].resp = Resp(401, "Authorization token is required", <<>>)
            /\ thr[t].hdr # NoHeader /\ ~thr[t].known =>
                   thr[t].resp = Resp(401, "Invalid token", <<>>)

\* C8, its case: a token that login issued and logout removed is presented to
\* send_message, which answers "Invalid token".
C8_RevokedTokenRefused ==
    /\ thr[MainThread].pc = "done"
    /\ thr[MainThread].op = "send_message"
    /\ thr[MainThread].hdr.tok \in DOMAIN issued
    /\ ~thr[MainThread].known
    /\ thr[MainThread].resp.error = "Invalid token"

\* C9: a request that a protected route answers 401 has changed no file:
\* users.json, tokens.json, blocked.json, messages/ and files/ are as before.
C9_FailedCheckNoEffect ==
    \A t \in Threads :
        /\ At(t, "done")
        /\ thr[t].op \in Protected \cup {"check_user"}
        /\ thr[t].resp.status = 401
        => ~dirty[t]

\* C9, its case: an upload is refused for its token while users, a session, a
\* log and an upload are stored.
C9_RefusedUploadLeavesStores ==
    /\ thr[MainThread].pc = "done"
    /\ thr[MainThread].op = "send_file"
    /\ thr[MainThread].resp.status = 401
    /\ DOMAIN get_users # {}
    /\ DOMAIN get_tokens # {}
    /\ msgdir # EmptyMap
    /\ filesdir # EmptyMap

\* C10: when delete_account has answered 200, no stored log holds a message
\* that the deleted user sent or received.
C10_NoLogOfDeletedUser ==
    \A t \in Threads :
        At(t, "done") /\ thr[t].op = "delete_account" /\ thr[t].resp.status = 200
        => \A m \in Stored(msgdir) : thr[t].user \notin {m.sender, m.recipient}

\* C11: when delete_account has answered 200, no token of tokens.json resolves
\* to the deleted user.
C11_NoTokenOfDeletedUser ==
    \A t \in Threads :
        At(t, "done") /\ thr[t].op = "delete_account" /\ thr[t].resp.status = 200
        => \A k \in DOMAIN get_tokens : get_tokens[k] # thr[t].user

\* C12: when a fetch by U for peer P has answered 200, every stored message
\* from P to U that was acknowledged before the fetch arrived has read true
\* (the specification makes no send: the acknowledged messages are those of
\* the initial state).
C12_FetchedAreRead ==
    \A t \in Threads :
        At(t, "done") /\ thr[t].op = "get_user_messages" /\ thr[t].resp.status = 200
        => \A m \in Stored(msgdir) :
              m.id \in acked /\ m.recipient = thr[t].user /\ m.sender = thr[t].peer
              => m.read


\* a directory of logs with the read flags put aside
Unflagged(dir) ==
    [p \in DOMAIN dir |->
        [ok |-> dir[p].ok,
         data |-> [i \in 1..Len(dir[p].data) |-> [dir[p].data[i] EXCEPT !.read = FALSE]]]]

\* C14: when a fetch has answered 200, every log file holds the messages it
\* held when the request arrived, in the same order, the read flags aside; the
\* peer may be the caller.
C14_FetchKeepsMessages ==
    \A t \in Threads :
        At(t, "done") /\ thr[t].op = "get_user_messages" /\ thr[t].resp.status = 200
        => Unflagged(msgdir) = Unflagged(found[t])


\* C13: a fetch that follows a fetch by the same user on the same conversation,
\* nothing in between, leaves every log as it found it, read flags included.
C13_SecondFetchChangesNothing ==
    \A u \in Threads \ {MainThread} :
        /\ At(MainThread, "done") /\ At(u, "done")
        /\ thr[MainThread].op = "get_user_messages" /\ thr[u].op = "get_user_messages"
        /\ thr[MainThread].resp.status = 200 /\ thr[u].resp.status = 200
        /\ thr[MainThread].user = thr[u].user /\ thr[MainThread].peer = thr[u].peer
        => msgdir = found[u]


\* C15: the list a fetch answers holds each sender's messages in the order
\* that sender's sends were made: none comes before an earlier one.
C15_WriterOrderKept ==
    \A t \in Threads :
        At(t, "done") /\ thr[t].op = "get_user_messages" /\ thr[t].resp.status = 200
        => LET body == thr[t].resp.body
           IN  \A i, j \in 1..Len(body) :
                   i < j /\ body[i].sender = body[j].sender => body[i].id <= body[j].id


\* C16: for a conversation of two users, the list a fetch answers is the log
\* in the order the messages were appended, equal timestamps included (one
\* client: a message made earlier is also stored earlier).
C16_AppendOrderAcrossFiles ==
    \A t \in Threads :
        /\ At(t, "done") /\ thr[t].op = "get_user_messages" /\ thr[t].resp.status = 200
        /\ thr[t].user # thr[t].peer
        => LET body == thr[t].resp.body
           IN  \A i, j \in 1..Len(body) : i < j => body[i].id < body[j].id


\* C17: a fetch served while a send is in progress answers at least the log
\* its request found: every message the two files of the conversation held
\* when the request arrived is in the list it answers.
C17_FetchSeesWholeLog ==
    \A t \in Threads :
        At(t, "done") /\ thr[t].op = "get_user_messages" /\ thr[t].resp.status = 200
        => \A p \in PathsOf(thr[t].user, thr[t].peer) \cap DOMAIN found[t] :
              \A i \in 1..Len(found[t][p].data) :
                  \E j \in 1..Len(thr[t].resp.body) :
                      thr[t].resp.body[j].id = found[t][p].data[i].id


\* C18: once block_user of A for another user B has been answered, the check
\* of line 566 is true for (A, B) and for (B, A); once unblock_user of A for B has been
\* answered and B does not block A, it is false for both.
C18_BlockIsSymmetric ==
    \A t \in Threads :
        /\ At(t, "done") /\ thr[t].op = "block_user" /\ thr[t].user # thr[t].peer
           => is_blocked(thr[t].user, thr[t].peer) /\ is_blocked(thr[t].peer, thr[t].user)
        /\ At(t, "done") /\ thr[t].op = "unblock_user" /\ thr[t].user \notin BlockedBy(thr[t].peer)
           => ~is_blocked(thr[t].user, thr[t].peer) /\ ~is_blocked(thr[t].peer, thr[t].user)


\* C19: when delete_chat of A for B has answered 200 and no message has been
\* sent since, the chat list of A has no entry for B, whatever the order of
\* the listing.
C19_DeletedChatNotListed ==
    \A t \in Threads :
        At(t, "done") /\ thr[t].op = "delete_chat" /\ thr[t].resp.status = 200
        => \A listing \in Listings(DOMAIN msgdir) :
              LET chats == get_user_chats(listing, thr[t].user)
              IN  \A i \in 1..Len(chats) : chats[i].username # thr[t].peer


\* C20: every entry of the chat list GET /chats answers to U describes the
\* stored log of U and the entry's user: `unread` is the number of its
\* messages with recipient U and read false, and the last message, its
\* timestamp and its attachment flag are those of the message appended last.
C20_SummaryMatchesLog ==
    \A t \in Threads :
        At(t, "done") /\ thr[t].op = "get_chats" /\ thr[t].resp.status = 200
        => \A i \in 1..Len(thr[t].resp.body) :
              LET chat == thr[t].resp.body[i]
                  paths == PathsOf(thr[t].user, chat.username)
                  msgs == UNION {{LoadOrSkip(p)[k] : k \in 1..Len(LoadOrSkip(p))} : p \in paths}
              IN  /\ chat.unread =
                       SumSet(paths, [p \in paths |-> Unread(LoadOrSkip(p), thr[t].user)])
                  /\ \E last \in msgs :
                       /\ \A m \in msgs : m.id <= last.id
                       /\ chat.last_message = last.content
                       /\ chat.timestamp = last.ts
                       /\ chat.is_file = last.is_file


\* C21: the chat list GET /chats answers is ordered by timestamp, newest
\* first, and entries with equal timestamps by handle, smallest first.
C21_ChatsOrdered ==
    \A t \in Threads :
        At(t, "done") /\ thr[t].op = "get_chats" /\ thr[t].resp.status = 200
        => LET chats == thr[t].resp.body
           IN  \A i, j \in 1..Len(chats) :
                   i < j => \/ chats[i].timestamp > chats[j].timestamp
                            \/ /\ chats[i].timestamp = chats[j].timestamp
                               /\ ~Before(chats[j].username, chats[i].username)


\* C22: of the signup requests for one username that have been answered and
\* not yet acknowledged by the thread, at most one was answered 201, and one
\* answered 400 changed no file.
C22_OneSignupSucceeds ==
    \A t, u \in Threads :
        At(t, "done") /\ thr[t].op = "signup"
        => /\ thr[t].resp.status = 400 => ~dirty[t]
           /\ /\ u # t /\ At(u, "done") /\ thr[u].op = "signup"
              /\ thr[u].peer = thr[t].peer /\ thr[t].resp.status = 201
              => thr[u].resp.status # 201


C24_ResolveWithOrWithoutBearer ==
    /\ \A h \in cfg.headers \ {NoHeader} :
          get_user_by_token(h) = IF h.tok \in DOMAIN get_tokens
                                 THEN get_tokens[h.tok] ELSE NoName
    /\ \A t \in Threads :
          thr[t].op \in Protected /\ ~At(t, "idle") /\ thr[t].hdr # NoHeader
          => IF thr[t].known
             THEN /\ thr[t].user \in {NoName, issued[thr[t].hdr.tok]}
                  /\ thr[t].resp.status # 401
             ELSE At(t, "done") /\ thr[t].resp.status = 401 /\ thr[t].user = NoName

\* a protected route has served a request whose header is "Bearer " and a
\* stored token, for the user of that token
C24_BearerTokenResolved ==
    \E t \in Threads :
        /\ At(t, "done") /\ thr[t].op \in Protected
        /\ thr[t].hdr.pre = "Bearer " /\ thr[t].known
        /\ thr[t].user = Alice /\ thr[t].resp.status \in {200, 201}


\* C25: logout answers 200 to every request, with no header, with a header
\* tokens.json does not hold, or with a stored token; after a logout that
\* carried a raw token the token is not stored, and a logout whose header is
\* not a key of tokens.json when it arrives (a second logout with the same
\* token) writes no file.
C25_LogoutIdempotent ==
    \A t \in Threads :
        At(t, "done") /\ thr[t].op = "logout"
        => /\ thr[t].resp.status = 200
           /\ thr[t].hdr.pre = "" => thr[t].hdr.tok \notin DOMAIN get_tokens
           /\ ~(thr[t].hdr.pre = "" /\ thr[t].known) => ~dirty[t]

\* a logout has been answered 200 for a token that login issued and an
\* earlier logout request carried and removed: it has written nothing
C25_SecondLogoutSucceeds ==
    \E t \in Threads :
        /\ At(t, "done") /\ thr[t].op = "logout" /\ thr[t].resp.status = 200
        /\ thr[t].hdr.pre = "" /\ thr[t].hdr.tok \in DOMAIN issued
        /\ ~thr[t].known /\ ~dirty[t]
        /\ issued[thr[t].hdr.tok] \in DOMAIN get_users


C27_DownloadReturnsUpload ==
    \A t \in Threads :
        At(t, "done") /\ thr[t].op = "download_file" /\ thr[t].resp.status # 401
        => IF thr[t].peer \in DOMAIN filesdir
           THEN /\ thr[t].resp.status = 200
                /\ \E k \in 1..cfg.files :
                      thr[t].peer = UniqueFilename(k, secure_filename(thr[t].resp.body))
           ELSE thr[t].resp.status = 404


\* C28: when delete_account has answered 200, files/ holds no upload of the
\* deleted user: no file_id of a file message that user sent is a file there.
C28_NoUploadOfDeletedUser ==
    \A t \in Threads :
        At(t, "done") /\ thr[t].op = "delete_account" /\ thr[t].resp.status = 200
        => \A i \in 1..Len(sent) :
              sent[i].is_file /\ sent[i].sender = thr[t].user
              => sent[i].file_id \notin DOMAIN filesdir


\* C29: a send with content to a handle that no account was ever created for
\* is answered 404, and messages/ never holds a log addressed to such a handle.
C29_SendToUnknownPeerRefused ==
    /\ \A t \in Threads :
          /\ At(t, "done") /\ thr[t].op = "send_message" /\ thr[t].known
          /\ thr[t].peer \notin cfg.users /\ thr[t].resp.status # 400
          => thr[t].resp.status = 404
    /\ \A sender \in cfg.users, recipient \in cfg.peers \ cfg.users :
          MessagePath(sender, recipient) \notin DOMAIN msgdir


\* C30: block_user of a user for its own name is refused with "You cannot
\* block yourself!" before any request is sent, it leaves blocked.json and
\* every other file as they were, and no user is ever in its own block list.
C30_SelfBlockRefused ==
    /\ \A t \in Threads :
          At(t, "done") /\ thr[t].op = "block_user" /\ thr[t].user = thr[t].peer
          => /\ thr[t].resp = Resp(0, "You cannot block yourself!", <<>>)
             /\ ~dirty[t]
    /\ \A u \in cfg.users : u \notin BlockedBy(u)

\* a self-block of each user has been refused
C30_SelfBlockOfBob ==
    \E t \in Threads :
        /\ At(t, "done") /\ thr[t].op = "block_user"
        /\ thr[t].user = Bob /\ thr[t].peer = Bob
        /\ thr[t].resp.error = "You cannot block yourself!"


\* C31: every block_user of A for another user B, the first and a repeated
\* one, reports success and leaves B in the block list of A.
C31_BlockAddsOneEdge ==
    \A t \in Threads :
        At(t, "done") /\ thr[t].op = "block_user" /\ thr[t].user # thr[t].peer
        => /\ thr[t].resp.status \in {200, 201}
           /\ thr[t].peer \in BlockedBy(thr[t].user)


\* C32: a message is stored with read true for the first time only by the
\* write of a get_user_messages request made by the message's recipient; no
\* step of a send, of a fetch by another user or of get_chats does it.
C32_OnlyRecipientFetchMarksRead ==
    [][\A m \in Stored(msgdir') :
          m.read /\ m.id \notin wasRead
          => \E t \in Threads :
                /\ thr[t].op = "get_user_messages"
                /\ thr[t].pc \in {"get_dump1", "get_dump2"}
                /\ thr'[t].pc # thr[t].pc
                /\ thr[t].user = m.recipient]_vars

\* the fetch of a message's recipient has been answered and the message, sent
\* by another user, is stored as read
C32_RecipientHasRead ==
    \E t \in Threads :
        /\ At(t, "done") /\ thr[t].op = "get_user_messages" /\ thr[t].resp.status = 200
        /\ \E m \in Stored(msgdir) : m.read /\ m.recipient = thr[t].user /\ m.sender # m.recipient


\* C33: the chat list GET /chats answers has at most one entry for each other
\* user.
C33_OneEntryPerPeer ==
    \A t \in Threads :
        At(t, "done") /\ thr[t].op = "get_chats" /\ thr[t].resp.status = 200
        => \A i, j \in 1..Len(thr[t].resp.body) :
              thr[t].resp.body[i].username = thr[t].resp.body[j].username => i = j


\* C34: every message a fetch of U with peer P answers has U and P as its
\* sender and recipient, and so has every message of the conversation behind
\* an entry of U's chat list, also for handles with '_' in them.
C34_NoSharedStorage ==
    /\ \A t \in Threads :
          At(t, "done") /\ thr[t].op = "get_user_messages" /\ thr[t].resp.status = 200
          => \A i \in 1..Len(thr[t].resp.body) :
                {thr[t].resp.body[i].sender, thr[t].resp.body[i].recipient}
                    = {thr[t].user, thr[t].peer}
    /\ \A username \in cfg.users, filename \in DOMAIN msgdir :
          LET user1 == ParsedUsers(filename)[1]
              user2 == ParsedUsers(filename)[2]
              messages == get_messages(user1, user2)
          IN  Parses(filename) /\ username \in {user1, user2}
              => \A i \in 1..Len(messages) :
                    {messages[i].sender, messages[i].recipient} = {user1, user2}


\* C35: when delete_account of U has answered 200, every log that held
\* messages when the request arrived, none of them sent or received by U, is
\* still stored as it was.
C35_OtherLogsKept ==
    \A t \in Threads :
        At(t, "done") /\ thr[t].op = "delete_account" /\ thr[t].resp.status = 200
        => \A p \in DOMAIN found[t] :
              /\ found[t][p].ok /\ found[t][p].data # <<>>
              /\ \A i \in 1..Len(found[t][p].data) :
                    thr[t].user \notin {found[t][p].data[i].sender,
                                        found[t][p].data[i].recipient}
              => p \in DOMAIN msgdir /\ msgdir[p] = found[t][p]


\* C36: whenever no request is being served, every token of tokens.json is
\* bound to a user of users.json.
C36_TokensOfKnownUsers ==
    Quiescent => \A k \in DOMAIN get_tokens : get_tokens[k] \in DOMAIN get_users


\* C37: from the moment delete_chat of U for P has answered 200, no message
\* that was stored when the request arrived is stored in the two files of U
\* and P.
C37_DeletedMessagesStayGone ==
    \A t \in Threads :
        At(t, "done") /\ thr[t].op = "delete_chat" /\ thr[t].resp.status = 200
        => \A p \in PathsOf(thr[t].user, thr[t].peer) \cap DOMAIN msgdir :
              \A m \in Stored(found[t]) :
                 \A i \in 1..Len(msgdir[p].data) : msgdir[p].data[i].id # m.id


\* C38: once unblock_user of A for B has been answered, B is not in the block
\* list of A, and the check of line 566 for the pair is true exactly when A is
\* in the block list of B.
C38_UnblockRemovesOneEdge ==
    \A t \in Threads :
        At(t, "done") /\ thr[t].op = "unblock_user"
        => /\ thr[t].peer \notin BlockedBy(thr[t].user)
           /\ is_blocked(thr[t].user, thr[t].peer) = (thr[t].user \in BlockedBy(thr[t].peer))


\* C39: every message_data a send creates, text or file, has as sender the
\* user the token of its request was issued to and read false, and the copy
\* appended to the log is that record; every stored message has the sender
\* of the record it was created as.
C39_SenderFromToken ==
    /\ \A i \in 1..Len(sent) : ~sent[i].read /\ sent[i].sender # NoName
    /\ \A t \in Threads :
          thr[t].pc \in {"send_read", "send_open", "send_dump"}
          => /\ StripBearer(thr[t].hdr).tok \in DOMAIN issued
             /\ thr[t].msg.sender = issued[StripBearer(thr[t].hdr).tok]
             /\ ~thr[t].msg.read
             /\ thr[t].pc # "send_read" => thr[t].msgs[Len(thr[t].msgs)] = thr[t].msg
    /\ \A m \in Stored(msgdir) :
          \E i \in 1..Len(sent) : sent[i].id = m.id /\ sent[i].sender = m.sender

\* a send, of text or of a file, has been answered 201 and its message is
\* stored unread under the user of the request's token
C39_MessageStoredForTokenUser ==
    \E t \in Threads :
        /\ At(t, "done") /\ thr[t].op \in {"send_message", "send_file"}
        /\ thr[t].resp.status = 201
        /\ \E m \in Stored(msgdir) :
              /\ m.sender = issued[StripBearer(thr[t].hdr).tok]
              /\ m.recipient = thr[t].peer /\ ~m.read

====
